---- MODULE Spec2Model ----
(***************************************************************************)
(* Model of src/src/index.ts: the Sampler (one fixed-interval gate), the   *)
(* MultiSampler (one Sampler per span name plus an unnamed one) and the    *)
(* EndToEndTracePolicy (builtin filter, active-trace short circuit, rate   *)
(* stage).                                                                 *)
(*                                                                         *)
(* Times are integers in milliseconds.  The sampling rates of the model    *)
(* are 0, negative, or divide 1000, so that the quotient 1000 / rate of    *)
(* line 69 is the same number in IEEE-754 doubles and in the integers.     *)
(* 1000 / 0 is +Infinity in JavaScript; it is the saturating value         *)
(* Infinity below.                                                         *)
(***************************************************************************)
EXTENDS Integers, Sequences, FiniteSets, TLC

VARIABLES
    policy,      \* the EndToEndTracePolicy object (fields of lines 141-145)
    config,      \* the constructor argument of line 147
    called,      \* TRUE once shouldTrace has been called
    lastReq,     \* the RequestDetails of the latest call
    lastRet,     \* the boolean that call returned
    lastThrew,   \* TRUE when that call raised a TypeError instead
    before,      \* the policy object as it was when the latest call began
    smp,         \* a stand-alone Sampler object (lines 56-81)
    smpRate,     \* the samplesPerSecondInput it was constructed with
    calls,       \* the calls made on smp: <<[t, ret, was, next], ...>>, with
                 \* nextTraceStart as the call found it and as it left it
    tasks,       \* callers of shouldTrace on smp, each with its position in
                 \* the method (pc), its timestamp (t) and its result (ret)
    running      \* the caller the event loop is executing, 0 when it is free

vars ==
    <<policy, config, called, lastReq, lastRet, lastThrew, before, smp, smpRate, calls,
      tasks, running>>

----------------------------------------------------------------------------
\* Bounds of the model.

\* request timestamps are 0, 1 and the multiples of 500 ms up to 500 * MaxTick
MaxTick == 1

\* timestamps of the stand-alone Sampler are 0, 1, 2 and the multiples of
\* 250 ms up to 250 * MaxSamplerTick
MaxSamplerTick == 3

\* number of calls made on the stand-alone Sampler
MaxCalls == 4

\* number of callers of one Sampler whose calls may overlap
MaxCallers == 2

Callers == 1..MaxCallers

Times == {0, 1} \cup {500 * i : i \in 1..MaxTick}

SamplerTimes == {0, 1, 2} \cup {250 * i : i \in 1..MaxSamplerTick}

\* the clock reads 0 at line 107 and one of these at line 108
Epochs == {0, 1}

\* instants at which the stand-alone Sampler may have been constructed
SamplerStarts == {0, 250}

\* config.samplingRate values: negative, zero, positive, above the maximum
SamplingRates == {-1, 0, 2, 2000}

\* rates of the stand-alone Sampler
SamplerRates == {1, 2, 4, 1000, 2000}

Urls == {"/healthz", "/api"}

Methods == {"GET"}

\* span names: empty, two ordinary names, and a name that is also a member
\* of Object.prototype
Names == {"", "A", "B", "constructor"}

----------------------------------------------------------------------------
\* JavaScript values.

\* +Infinity of IEEE-754 doubles: larger than every timestamp, absorbing
\* under addition.
Infinity == 1000000000

\* a + b on doubles
Add(a, b) == IF a >= Infinity \/ b >= Infinity THEN Infinity ELSE a + b

\* a / b on doubles, for a > 0 and b zero or a divisor of a
Divide(a, b) ==
    IF b = 0 THEN Infinity
    ELSE IF b < 0 THEN 0 - (a \div (0 - b))
    ELSE a \div b

\* the property names every plain object inherits from Object.prototype
ObjectPrototypeKeys ==
    {"constructor", "toString", "toLocaleString", "valueOf", "hasOwnProperty",
     "isPrototypeOf", "propertyIsEnumerable", "__proto__"}

\* details.traceContext: null, or a context with its options flag
TraceContexts ==
    {[present |-> FALSE, options |-> 0]} \cup [present : {TRUE}, options : {0, 1}]

\* details.options: the span options, whose name may be absent
SpanOptions ==
    {[hasName |-> FALSE, name |-> ""]} \cup [hasName : {TRUE}, name : Names]

RequestDetails ==
    [timestamp : Times, url : Urls, method : Methods,
     traceContext : TraceContexts, options : SpanOptions]

\* !name of line 121: absent or the empty string
NameIsFalsy(options) == ~options.hasName \/ options.name = ""

\* details.traceContext?.options of line 180, as a condition
InActiveTrace(details) ==
    details.traceContext.present /\ details.traceContext.options # 0

----------------------------------------------------------------------------
\* class Sampler

\* mutant: the rate is not clamped to 1000
SamplerNew_NoClamp(samplesPerSecondInput, nextTraceStart) ==
    [traceWindow |-> Divide(1000, samplesPerSecondInput),
     nextTraceStart |-> nextTraceStart]

SamplerNew(samplesPerSecondInput, nextTraceStart) ==
    LET samplesPerSecond ==
            IF samplesPerSecondInput > 1000 THEN 1000 ELSE samplesPerSecondInput
    IN  [traceWindow |-> Divide(1000, samplesPerSecond),
         nextTraceStart |-> nextTraceStart]

\* mutant: an admission does not advance nextTraceStart
SamplerShouldTrace_NoAdvance(self, dateMillis) ==
    IF dateMillis < self.nextTraceStart
    THEN [ret |-> FALSE, self |-> self]
    ELSE [ret |-> TRUE, self |-> self]

\* mutant: an admission advances nextTraceStart from its old value, not from
\* the call time (allowance piles up while the limiter is idle)
SamplerShouldTrace_Credit(self, dateMillis) ==
    IF dateMillis < self.nextTraceStart
    THEN [ret |-> FALSE, self |-> self]
    ELSE [ret |-> TRUE,
          self |-> [self EXCEPT !.nextTraceStart =
                       Add(self.nextTraceStart, self.traceWindow)]]

\* mutant: a call at nextTraceStart itself is rejected
SamplerShouldTrace_Inclusive(self, dateMillis) ==
    IF dateMillis <= self.nextTraceStart
    THEN [ret |-> FALSE, self |-> self]
    ELSE [ret |-> TRUE,
          self |-> [self EXCEPT !.nextTraceStart = Add(dateMillis, self.traceWindow)]]

\* mutant: a rejected call restarts the window too
SamplerShouldTrace_RejectRestarts(self, dateMillis) ==
    [ret |-> ~(dateMillis < self.nextTraceStart),
     self |-> [self EXCEPT !.nextTraceStart = Add(dateMillis, self.traceWindow)]]

SamplerShouldTrace(self, dateMillis) ==
    IF dateMillis < self.nextTraceStart
    THEN [ret |-> FALSE, self |-> self]
    ELSE [ret |-> TRUE,
          self |-> [self EXCEPT !.nextTraceStart = Add(dateMillis, self.traceWindow)]]

----------------------------------------------------------------------------
\* class MultiSampler

\* now1 is the Date.now() of line 107 (default argument of line 62) and
\* now2 the new Date().getTime() of line 108
MultiSamplerNew(samplesPerSecondInput, now1, now2) ==
    LET samplesPerSecond ==
            IF samplesPerSecondInput > 1000 THEN 1000 ELSE samplesPerSecondInput
    IN  [samplesPerSecond |-> samplesPerSecond,
         samplers |-> <<>>,
         unnamedSampler |-> SamplerNew(samplesPerSecond, now1),
         samplerStart |-> now2]

\* this.samplers[name] of line 125 on the plain object of line 106: an own
\* property, else a member inherited from Object.prototype, else undefined
Lookup(samplers, name) ==
    IF name \in DOMAIN samplers THEN "own"
    ELSE IF name \in ObjectPrototypeKeys THEN "inherited"
    ELSE "undefined"

\* mutant: every name is served by the unnamed Sampler (one global schedule)
GetSampler_OneSchedule(self, options) == [where |-> "unnamed", self |-> self]

\* mutant: only an absent name is unnamed; the empty string is a key
GetSampler_EmptyIsKey(self, options) ==
    IF ~options.hasName
    THEN [where |-> "unnamed", self |-> self]
    ELSE LET name == options.name
             found == Lookup(self.samplers, name)
         IN  IF found = "undefined"
             THEN [where |-> "named",
                   self |-> [self EXCEPT !.samplers =
                       [n \in DOMAIN self.samplers \cup {name} |->
                           IF n = name
                           THEN SamplerNew(self.samplesPerSecond, self.samplerStart)
                           ELSE self.samplers[n]]]]
             ELSE IF found = "own"
             THEN [where |-> "named", self |-> self]
             ELSE [where |-> "inherited", self |-> self]

\* mutant: a new Sampler is seeded one window after samplerStart
GetSampler_SeedAfterWindow(self, options) ==
    IF NameIsFalsy(options)
    THEN [where |-> "unnamed", self |-> self]
    ELSE LET name == options.name
             found == Lookup(self.samplers, name)
         IN  IF found = "undefined"
             THEN [where |-> "named",
                   self |-> [self EXCEPT !.samplers =
                       [n \in DOMAIN self.samplers \cup {name} |->
                           IF n = name
                           THEN SamplerNew(self.samplesPerSecond,
                                    Add(self.samplerStart,
                                        self.unnamedSampler.traceWindow))
                           ELSE self.samplers[n]]]]
             ELSE IF found = "own"
             THEN [where |-> "named", self |-> self]
             ELSE [where |-> "inherited", self |-> self]

\* mutant: the Sampler of a name is constructed anew on every call
GetSampler_Reseed(self, options) ==
    IF NameIsFalsy(options)
    THEN [where |-> "unnamed", self |-> self]
    ELSE LET name == options.name
             found == Lookup(self.samplers, name)
         IN  IF found = "inherited"
             THEN [where |-> "inherited", self |-> self]
             ELSE [where |-> "named",
                   self |-> [self EXCEPT !.samplers =
                       [n \in DOMAIN self.samplers \cup {name} |->
                           IF n = name
                           THEN SamplerNew(self.samplesPerSecond, self.samplerStart)
                           ELSE self.samplers[n]]]]

\* where: which object is returned; self: the registry after the call
GetSampler(self, options) ==
    IF NameIsFalsy(options)
    THEN [where |-> "unnamed", self |-> self]
    ELSE LET name == options.name
             found == Lookup(self.samplers, name)
         IN  IF found = "undefined"
             THEN [where |-> "named",
                   self |-> [self EXCEPT !.samplers =
                       [n \in DOMAIN self.samplers \cup {name} |->
                           IF n = name
                           THEN SamplerNew(self.samplesPerSecond, self.samplerStart)
                           ELSE self.samplers[n]]]]
             ELSE IF found = "own"
             THEN [where |-> "named", self |-> self]
             ELSE [where |-> "inherited", self |-> self]

\* threw: sampler.shouldTrace is not a function (the inherited member is
\* no Sampler)
MultiSamplerShouldTrace(self, details) ==
    LET got == GetSampler(self, details.options) IN
    IF got.where = "unnamed"
    THEN LET r == SamplerShouldTrace(got.self.unnamedSampler, details.timestamp)
         IN  [ret |-> r.ret, threw |-> FALSE,
              self |-> [got.self EXCEPT !.unnamedSampler = r.self]]
    ELSE IF got.where = "named"
    THEN LET r == SamplerShouldTrace(got.self.samplers[details.options.name],
                                     details.timestamp)
         IN  [ret |-> r.ret, threw |-> FALSE,
              self |-> [got.self EXCEPT !.samplers[details.options.name] = r.self]]
    ELSE [ret |-> FALSE, threw |-> TRUE, self |-> got.self]

----------------------------------------------------------------------------
\* class EndToEndTracePolicy

\* BuiltinTracePolicy with contextHeaderBehavior IGNORE and samplingRate 0:
\* the URL and method filters alone
BuiltinShouldTrace(builtin, details) ==
    /\ details.url \notin builtin.ignoreUrls
    /\ details.method \notin builtin.ignoreMethods

AlwaysSampler == [kind |-> "always"]

NeverSampler == [kind |-> "never"]

\* the branch of lines 162-168 assigns this.sampler, and line 170 assigns it
\* again
EndToEndTracePolicyNew(cfg, now1, now2) ==
    LET branch ==
            IF cfg.samplingRate = 0 THEN AlwaysSampler
            ELSE IF cfg.samplingRate < 0 THEN NeverSampler
            ELSE [kind |-> "multi",
                  multi |-> MultiSamplerNew(cfg.samplingRate, now1, now2)]
        overwrite ==
            [kind |-> "multi", multi |-> MultiSamplerNew(cfg.samplingRate, now1, now2)]
        sampler == IF TRUE THEN overwrite ELSE branch
    IN  [builtinTracePolicy |->
             [ignoreMethods |-> cfg.ignoreMethods, ignoreUrls |-> cfg.ignoreUrls],
         sampler |-> sampler]

\* this.sampler.shouldTrace(details) of line 185
PolicySamplerShouldTrace(sampler, details) ==
    IF sampler.kind = "always" THEN [ret |-> TRUE, threw |-> FALSE, self |-> sampler]
    ELSE IF sampler.kind = "never" THEN [ret |-> FALSE, threw |-> FALSE, self |-> sampler]
    ELSE LET r == MultiSamplerShouldTrace(sampler.multi, details)
         IN  [ret |-> r.ret, threw |-> r.threw,
              self |-> [sampler EXCEPT !.multi = r.self]]

\* mutant: the rate stage decides flagged requests too
EndToEndShouldTrace_NoShortCircuit(self, details) ==
    IF ~BuiltinShouldTrace(self.builtinTracePolicy, details)
    THEN [ret |-> FALSE, threw |-> FALSE, self |-> self]
    ELSE LET r == PolicySamplerShouldTrace(self.sampler, details)
         IN  [ret |-> r.ret, threw |-> r.threw,
              self |-> [self EXCEPT !.sampler = r.self]]

\* mutant: the rate stage runs first and the filter is applied to its result
EndToEndShouldTrace_FilterLast(self, details) ==
    LET r == PolicySamplerShouldTrace(self.sampler, details)
        after == [self EXCEPT !.sampler = r.self]
    IN  IF r.threw THEN [ret |-> FALSE, threw |-> TRUE, self |-> after]
        ELSE IF ~BuiltinShouldTrace(self.builtinTracePolicy, details)
        THEN [ret |-> FALSE, threw |-> FALSE, self |-> after]
        ELSE IF InActiveTrace(details)
        THEN [ret |-> TRUE, threw |-> FALSE, self |-> after]
        ELSE [ret |-> r.ret, threw |-> FALSE, self |-> after]

\* mutant: the rate stage is consulted and its result dropped
EndToEndShouldTrace_DropsResult(self, details) ==
    IF ~BuiltinShouldTrace(self.builtinTracePolicy, details)
    THEN [ret |-> FALSE, threw |-> FALSE, self |-> self]
    ELSE IF InActiveTrace(details)
    THEN [ret |-> TRUE, threw |-> FALSE, self |-> self]
    ELSE LET r == PolicySamplerShouldTrace(self.sampler, details)
         IN  [ret |-> TRUE, threw |-> r.threw,
              self |-> [self EXCEPT !.sampler = r.self]]

\* mutant: the rate stage is consulted before the flag overrides its result
EndToEndShouldTrace_FlagAfterRate(self, details) ==
    IF ~BuiltinShouldTrace(self.builtinTracePolicy, details)
    THEN [ret |-> FALSE, threw |-> FALSE, self |-> self]
    ELSE LET r == PolicySamplerShouldTrace(self.sampler, details)
         IN  [ret |-> IF InActiveTrace(details) THEN TRUE ELSE r.ret,
              threw |-> IF InActiveTrace(details) THEN FALSE ELSE r.threw,
              self |-> [self EXCEPT !.sampler = r.self]]

EndToEndShouldTrace(self, details) ==
    IF ~BuiltinShouldTrace(self.builtinTracePolicy, details)
    THEN [ret |-> FALSE, threw |-> FALSE, self |-> self]
    ELSE IF InActiveTrace(details)
    THEN [ret |-> TRUE, threw |-> FALSE, self |-> self]
    ELSE LET r == PolicySamplerShouldTrace(self.sampler, details)
         IN  [ret |-> r.ret, threw |-> r.threw,
              self |-> [self EXCEPT !.sampler = r.self]]

----------------------------------------------------------------------------
\* The policy as a state machine: constructed once, then called.

Configs ==
    [ignoreMethods : {{"OPTIONS"}}, ignoreUrls : {{"/healthz"}},
     samplingRate : SamplingRates]

NoRequest ==
    [timestamp |-> 0, url |-> "/api", method |-> "GET",
     traceContext |-> [present |-> FALSE, options |-> 0],
     options |-> [hasName |-> FALSE, name |-> ""]]

IdleSampler == SamplerNew(1, 0)

InitSamplerIdle ==
    /\ smp = IdleSampler
    /\ smpRate = 1
    /\ calls = <<>>

\* no caller has entered shouldTrace
InitTasksIdle ==
    /\ tasks = [c \in Callers |-> [pc |-> "idle", t |-> 0, ret |-> FALSE]]
    /\ running = 0

Init ==
    /\ config \in Configs
    /\ \E now2 \in Epochs : policy = EndToEndTracePolicyNew(config, 0, now2)
    /\ before = policy
    /\ called = FALSE
    /\ lastReq = NoRequest
    /\ lastRet = FALSE
    /\ lastThrew = FALSE
    /\ InitSamplerIdle
    /\ InitTasksIdle

ShouldTrace(details) ==
    \E r \in {EndToEndShouldTrace(policy, details)} :
    /\ policy' = r.self
    /\ before' = policy
    /\ called' = TRUE
    /\ lastReq' = details
    /\ lastRet' = r.ret
    /\ lastThrew' = r.threw
    /\ UNCHANGED <<config, smp, smpRate, calls, tasks, running>>

Next == \E details \in RequestDetails : ShouldTrace(details)

Spec == Init /\ [][Next]_vars

----------------------------------------------------------------------------
\* A stand-alone Sampler as a state machine: constructed once, then called
\* at most MaxCalls times with arbitrary timestamps.

\* beside the Sampler stands a policy constructed with the same rate
SamplerConfig ==
    [ignoreMethods |-> {"OPTIONS"}, ignoreUrls |-> {"/healthz"},
     samplingRate |-> smpRate]

InitSampler ==
    /\ smpRate \in SamplerRates
    /\ \E start \in SamplerStarts : smp = SamplerNew(smpRate, start)
    /\ calls = <<>>
    /\ config = SamplerConfig
    /\ policy = EndToEndTracePolicyNew(config, 0, 0)
    /\ before = policy
    /\ called = FALSE
    /\ lastReq = NoRequest
    /\ lastRet = FALSE
    /\ lastThrew = FALSE
    /\ InitTasksIdle

SamplerCall(dateMillis) ==
    /\ Len(calls) < MaxCalls
    /\ \E r \in {SamplerShouldTrace(smp, dateMillis)} :
          /\ smp' = r.self
          /\ calls' = Append(calls,
                 [t |-> dateMillis, ret |-> r.ret,
                  was |-> smp.nextTraceStart, next |-> r.self.nextTraceStart])
    /\ UNCHANGED <<smpRate, policy, config, called, lastReq, lastRet, lastThrew, before,
                   tasks, running>>

NextSampler == \E dateMillis \in SamplerTimes : SamplerCall(dateMillis)

SpecSampler == InitSampler /\ [][NextSampler]_vars

----------------------------------------------------------------------------
\* Several callers of shouldTrace on the Sampler of one existing key, the
\* method taken statement by statement: the comparison of line 74 and the
\* assignment of line 77 are separate steps.  shouldTrace is a synchronous
\* method (no await between its statements), so the event loop runs a call
\* it has started to its return before it starts another.

\* mutant: a call may start while another is inside the method
EventLoopFree_Preemptive(r) == TRUE

\* the event loop may start a call
EventLoopFree(r) == r = 0

InitConc ==
    /\ smpRate \in SamplerRates
    /\ \E start \in SamplerStarts : smp = SamplerNew(smpRate, start)
    /\ calls = <<>>
    /\ config = SamplerConfig
    /\ policy = EndToEndTracePolicyNew(config, 0, 0)
    /\ before = policy
    /\ called = FALSE
    /\ lastReq = NoRequest
    /\ lastRet = FALSE
    /\ lastThrew = FALSE
    /\ InitTasksIdle

\* caller c enters shouldTrace(dateMillis)
Enter(c, dateMillis) ==
    /\ tasks[c].pc = "idle"
    /\ EventLoopFree(running)
    /\ tasks' = [tasks EXCEPT ![c] = [pc |-> "compare", t |-> dateMillis, ret |-> FALSE]]
    /\ running' = c
    /\ UNCHANGED smp

\* lines 74-76: the comparison, and the return of false
Compare(c) ==
    /\ tasks[c].pc = "compare"
    /\ IF tasks[c].t < smp.nextTraceStart
       THEN /\ tasks' = [tasks EXCEPT ![c].pc = "done", ![c].ret = FALSE]
            /\ running' = IF running = c THEN 0 ELSE running
       ELSE /\ tasks' = [tasks EXCEPT ![c].pc = "advance"]
            /\ running' = running
    /\ UNCHANGED smp

\* lines 77-79: the assignment, and the return of true
Advance(c) ==
    /\ tasks[c].pc = "advance"
    /\ smp' = [smp EXCEPT !.nextTraceStart = Add(tasks[c].t, smp.traceWindow)]
    /\ tasks' = [tasks EXCEPT ![c].pc = "done", ![c].ret = TRUE]
    /\ running' = IF running = c THEN 0 ELSE running

NextConc ==
    \E c \in Callers :
        /\ \/ \E dateMillis \in SamplerTimes : Enter(c, dateMillis)
           \/ Compare(c)
           \/ Advance(c)
        /\ UNCHANGED <<policy, config, called, lastReq, lastRet, lastThrew, before,
                       smpRate, calls>>

SpecConc == InitConc /\ [][NextConc]_vars

----------------------------------------------------------------------------
\* Vocabulary of the properties.  They are stated on the request, the
\* configuration and the limiters' fields, not through the operators above.

\* the builtin filter lets the request through
FilterPasses(d) ==
    d.url \notin config.ignoreUrls /\ d.method \notin config.ignoreMethods

\* the trace-options flag is present and non-zero
Flagged(d) == d.traceContext.present /\ d.traceContext.options # 0

\* the latest call reached the rate stage
RateStageCall == called /\ FilterPasses(lastReq) /\ ~Flagged(lastReq)

\* the keyed limiter registry of a policy object
Registry(p) == p.sampler.multi

\* the request has an endpoint key (present and not empty)
HasKey(d) == d.options.hasName /\ d.options.name # ""

\* the nextAdmissionTime the registry r holds against key k; the epoch for a
\* key without a limiter
KeyNext(r, k) ==
    IF k \in DOMAIN r.samplers THEN r.samplers[k].nextTraceStart ELSE r.samplerStart

\* the nextAdmissionTime that applies to request d in registry r
AppliedNext(r, d) ==
    IF HasKey(d) THEN KeyNext(r, d.options.name) ELSE r.unnamedSampler.nextTraceStart

\* the key of d has no limiter in r and names a member of Object.prototype
ShadowedKey(r, d) ==
    /\ HasKey(d)
    /\ d.options.name \notin DOMAIN r.samplers
    /\ d.options.name \in ObjectPrototypeKeys

\* the limiter of key k is the same object with the same fields in r1 and r2
SameLimiter(r1, r2, k) ==
    /\ (k \in DOMAIN r1.samplers) = (k \in DOMAIN r2.samplers)
    /\ k \in DOMAIN r1.samplers => r1.samplers[k] = r2.samplers[k]

----------------------------------------------------------------------------
\* C1: a request that passes the builtin filter and carries a non-zero
\* trace-options flag is traced (the call returns true), whatever the state
\* of the limiters.
C1_FlaggedIsTraced ==
    (called /\ FilterPasses(lastReq) /\ Flagged(lastReq))
        => (lastRet = TRUE /\ ~lastThrew)

\* a flagged request for key A is traced at the very timestamp at which A's
\* budget was exhausted (rate 2: A admitted at t, closed until t + 500)
C1_Witness ==
    /\ called /\ FilterPasses(lastReq) /\ Flagged(lastReq) /\ lastRet
    /\ config.samplingRate = 2
    /\ lastReq.options.hasName /\ lastReq.options.name = "A"
    /\ "A" \in DOMAIN Registry(policy).samplers
    /\ Registry(policy).samplers["A"].nextTraceStart = lastReq.timestamp + 500

\* C2: a request the builtin filter rejects is not traced, flagged or not,
\* and the call leaves the whole policy object unchanged: no limiter is
\* created and no nextTraceStart moves.
C2_FilteredLeavesLimiters ==
    (called /\ ~FilterPasses(lastReq))
        => (lastRet = FALSE /\ ~lastThrew /\ policy = before)

\* a filtered-out, flagged request for a key that has no limiter yet
C2_Witness ==
    /\ called /\ ~FilterPasses(lastReq) /\ Flagged(lastReq)
    /\ lastRet = FALSE
    /\ lastReq.options.hasName /\ lastReq.options.name = "A"
    /\ "A" \notin DOMAIN Registry(policy).samplers
    /\ "B" \in DOMAIN Registry(policy).samplers

\* C3: with samplingRate = 0 every request that reaches the rate stage is
\* traced.
C3_ZeroRateAlwaysTraced ==
    (RateStageCall /\ config.samplingRate = 0 /\ ~lastThrew) => lastRet = TRUE

\* C4: with a negative samplingRate every request that reaches the rate
\* stage is rejected.
C4_NegativeRateNeverTraced ==
    (RateStageCall /\ config.samplingRate < 0 /\ ~lastThrew) => lastRet = FALSE

\* C5: with a positive samplingRate the decision on a request that reaches
\* the rate stage is the registry's: true exactly when the timestamp is not
\* before the nextTraceStart the registry held for the request's key, and
\* the registry's failure when the registry fails.
C5_DecisionIsRegistryResult ==
    (RateStageCall /\ config.samplingRate > 0)
        => IF ShadowedKey(Registry(before), lastReq)
           THEN lastThrew
           ELSE /\ ~lastThrew
                /\ lastRet = ~(lastReq.timestamp < AppliedNext(Registry(before), lastReq))

\* an unflagged request (flag present and zero) rejected by the limiter of
\* its key
C5_Witness ==
    /\ RateStageCall /\ config.samplingRate > 0
    /\ lastReq.traceContext.present
    /\ HasKey(lastReq) /\ lastReq.options.name \in DOMAIN Registry(before).samplers
    /\ lastRet = FALSE /\ ~lastThrew

----------------------------------------------------------------------------
\* Vocabulary of the properties of the stand-alone Sampler.

\* the calls so far came with non-decreasing timestamps
NonDecreasing ==
    \A i \in 1..Len(calls), j \in 1..Len(calls) : i < j => calls[i].t <= calls[j].t

\* the number of true results with call time in [a, a + l)
AdmittedIn(a, l) ==
    Cardinality({i \in 1..Len(calls) :
        calls[i].ret /\ a <= calls[i].t /\ calls[i].t < a + l})

\* ceil(n / d) for n >= 0 and d > 0
CeilDiv(n, d) == (n + d - 1) \div d

\* lengths of the intervals examined
Lengths == SamplerTimes \cup {t + 1 : t \in SamplerTimes}

\* C6: for a limiter of positive rate R called with non-decreasing
\* timestamps, every half-open interval of length L ms holds at most
\* ceil(L / (1000 / R)) + 1 = ceil(L * R / 1000) + 1 true results.
C6_AdmissionsPerInterval ==
    (smpRate > 0 /\ NonDecreasing)
        => \A a \in SamplerTimes, l \in Lengths :
               AdmittedIn(a, l) <= CeilDiv(l * smpRate, 1000) + 1

\* three admissions a window apart fill an interval of ceil(L / W) windows,
\* with a rejected call among them
C6_Witness ==
    /\ smpRate > 0 /\ NonDecreasing
    /\ \E i \in 1..Len(calls) : ~calls[i].ret
    /\ \E a \in SamplerTimes, l \in Lengths :
          /\ AdmittedIn(a, l) >= 3
          /\ AdmittedIn(a, l) = CeilDiv(l * smpRate, 1000)

----------------------------------------------------------------------------
\* C7: a call for key A leaves the limiter of every other key and the
\* unnamed limiter as they were, and its own outcome is fixed by the
\* nextTraceStart of A's own limiter (the epoch when A has none): true
\* exactly when the timestamp is not before it.
C7_KeysAreIndependent ==
    (called /\ HasKey(lastReq))
        => /\ \A k \in Names \ {lastReq.options.name} :
                  SameLimiter(Registry(before), Registry(policy), k)
           /\ Registry(policy).unnamedSampler = Registry(before).unnamedSampler
           /\ (RateStageCall /\ ~lastThrew)
                  => lastRet = ~(lastReq.timestamp
                                   < KeyNext(Registry(before), lastReq.options.name))

\* key B is admitted at an instant at which key A is closed, the unnamed
\* limiter being closed too
C7_Witness ==
    /\ RateStageCall /\ lastRet /\ ~lastThrew
    /\ lastReq.options.hasName /\ lastReq.options.name = "B"
    /\ "A" \in DOMAIN Registry(policy).samplers
    /\ lastReq.timestamp < Registry(policy).samplers["A"].nextTraceStart
    /\ lastReq.timestamp < Registry(policy).unnamedSampler.nextTraceStart
    /\ config.samplingRate > 0

\* C8: a call whose key is absent or empty is decided by the unnamed limiter
\* and creates no registry entry; a call with a key leaves the unnamed
\* limiter as it was.
C8_UnnamedSharesOneLimiter ==
    /\ "" \notin DOMAIN Registry(policy).samplers
    /\ (called /\ ~HasKey(lastReq))
           => /\ Registry(policy).samplers = Registry(before).samplers
              /\ ~lastThrew
              /\ RateStageCall
                     => lastRet = ~(lastReq.timestamp
                                     < Registry(before).unnamedSampler.nextTraceStart)
    /\ (called /\ HasKey(lastReq))
           => Registry(policy).unnamedSampler = Registry(before).unnamedSampler

\* a request with the empty name is rejected by the unnamed limiter while
\* named limiters exist
C8_Witness ==
    /\ RateStageCall /\ lastRet = FALSE
    /\ lastReq.options.hasName /\ lastReq.options.name = ""
    /\ DOMAIN Registry(policy).samplers = {"A", "B"}
    /\ config.samplingRate > 0

\* C9: shouldTrace returns a boolean and never raises.
C9_NeverRaises == lastRet \in BOOLEAN /\ ~lastThrew

----------------------------------------------------------------------------
\* the latest call reached the rate stage with a key that had no limiter, and
\* created the limiter of that key
FirstCallOfKey ==
    /\ RateStageCall /\ HasKey(lastReq)
    /\ lastReq.options.name \notin DOMAIN Registry(before).samplers
    /\ lastReq.options.name \in DOMAIN Registry(policy).samplers

\* C10 as stated: with a positive rate, the first call of a new key that
\* comes later than the epoch and within one window of it is not admitted
\* (the schedule phased from the epoch is closed until epoch + W).
C10_LateKeyWaitsForSchedule ==
    (/\ FirstCallOfKey /\ config.samplingRate > 0
     /\ Registry(before).samplerStart < lastReq.timestamp
     /\ lastReq.timestamp
            < Registry(before).samplerStart + Registry(before).unnamedSampler.traceWindow)
        => lastRet = FALSE

\* C10 amended: the first call of a new key is decided against the epoch
\* alone: admitted exactly when its timestamp is not before the epoch, so a
\* first call later than the epoch is always admitted.
C10_FirstCallDecidedByEpoch ==
    FirstCallOfKey
        => /\ ~lastThrew
           /\ lastRet = (lastReq.timestamp >= Registry(before).samplerStart)

\* a key first seen later than the epoch, after another key was served, is
\* admitted on its first call
C10_Witness ==
    /\ FirstCallOfKey /\ lastRet
    /\ config.samplingRate > 0
    /\ lastReq.timestamp > Registry(before).samplerStart
    /\ DOMAIN Registry(before).samplers # {}

----------------------------------------------------------------------------
\* Further vocabulary of the stand-alone Sampler.

\* the window W in ms of a limiter of positive rate: 1000 / rate, the rate
\* taken as at most 1000
Window == 1000 \div (IF smpRate > 1000 THEN 1000 ELSE smpRate)

\* nextTraceStart as the constructor set it
SeedOfSampler == IF calls = <<>> THEN smp.nextTraceStart ELSE calls[1].was

\* the admitted calls before call j
AdmittedBefore(j) == {i \in 1..(j - 1) : calls[i].ret}

\* the latest of them
LastAdmittedBefore(j) ==
    CHOOSE i \in AdmittedBefore(j) : \A k \in AdmittedBefore(j) : k <= i

\* C11: no burst credit.  With non-decreasing call times any two admissions
\* of a limiter of positive rate are at least W apart, so after an idle
\* period of any length only one call is admitted at once.
C11_NoBurstCredit ==
    (smpRate > 0 /\ NonDecreasing)
        => \A i \in 1..Len(calls), j \in 1..Len(calls) :
               (i < j /\ calls[i].ret /\ calls[j].ret)
                   => calls[j].t - calls[i].t >= Window

\* after an idle period of more than two windows one call is admitted and
\* the next, at the same instant, is rejected
C11_Witness ==
    /\ smpRate > 0 /\ NonDecreasing
    /\ \E i \in 1..(Len(calls) - 1) :
          /\ calls[i].t > calls[i].was + 2 * Window
          /\ calls[i].ret
          /\ calls[i + 1].t = calls[i].t
          /\ ~calls[i + 1].ret

\* C12 as stated: of two consecutive calls at the same instant the first
\* returns true and the second false.
C12_TrueThenFalse ==
    smpRate > 0
        => \A i \in 1..(Len(calls) - 1) :
               calls[i + 1].t = calls[i].t => (calls[i].ret /\ ~calls[i + 1].ret)

\* C12 amended: of two consecutive calls at the same instant t the second
\* returns false, and the first returns true exactly when t is not before
\* nextTraceStart.
C12_SecondAtSameInstantRejected ==
    smpRate > 0
        => \A i \in 1..(Len(calls) - 1) :
               calls[i + 1].t = calls[i].t
                   => /\ ~calls[i + 1].ret
                      /\ calls[i].ret = (calls[i].t >= calls[i].was)

\* true then false at one instant
C12_Witness ==
    /\ smpRate > 0
    /\ \E i \in 1..(Len(calls) - 1) :
          calls[i + 1].t = calls[i].t /\ calls[i].ret /\ ~calls[i + 1].ret

\* the results a limiter of rate 1000 seeded at start gives on the call
\* times ts
RECURSIVE ResultsAt1000(_, _)
ResultsAt1000(sampler, ts) ==
    IF ts = <<>> THEN <<>>
    ELSE LET r == SamplerShouldTrace(sampler, Head(ts))
         IN  <<r.ret>> \o ResultsAt1000(r.self, Tail(ts))

\* C13: a rate above 1000 is clamped to 1000.  A limiter built with such a
\* rate has a window of exactly 1 ms and gives on every sequence of calls the
\* results of a limiter built with rate 1000; so does the registry, whose
\* rate is then 1000; and no window of a positive rate is below 1 ms.
C13_RateClamped ==
    /\ smpRate > 0 => smp.traceWindow >= 1
    /\ smpRate > 1000
           => /\ smp.traceWindow = 1
              /\ Registry(policy).samplesPerSecond = 1000
              /\ Registry(policy).unnamedSampler.traceWindow = 1
              /\ [i \in 1..Len(calls) |-> calls[i].ret]
                     = ResultsAt1000(SamplerNew(1000, SeedOfSampler),
                                     [i \in 1..Len(calls) |-> calls[i].t])

\* a limiter built with rate 2000 admits, rejects at the same instant, and
\* admits again 1 ms later
C13_Witness ==
    /\ smpRate > 1000
    /\ \E i \in 1..(Len(calls) - 2) :
          /\ calls[i].ret
          /\ calls[i + 1].t = calls[i].t /\ ~calls[i + 1].ret
          /\ calls[i + 2].t = calls[i].t + 1 /\ calls[i + 2].ret

\* C14: a call at time now with now < nextTraceStart returns false and
\* leaves nextTraceStart as it was; any other call returns true and sets
\* nextTraceStart to now + W.  Nothing else changes nextTraceStart: each
\* call finds the value the call before it left.
C14_ShouldTraceStep ==
    smpRate > 0
        => /\ \A i \in 1..Len(calls) :
                  IF calls[i].t < calls[i].was
                  THEN ~calls[i].ret /\ calls[i].next = calls[i].was
                  ELSE calls[i].ret /\ calls[i].next = calls[i].t + Window
           /\ \A i \in 1..(Len(calls) - 1) : calls[i + 1].was = calls[i].next
           /\ calls # <<>> => smp.nextTraceStart = calls[Len(calls)].next

\* a rejected call, a call admitted exactly at nextTraceStart and a call
\* admitted after it
C14_Witness ==
    /\ smpRate > 0
    /\ \E i \in 1..Len(calls) : ~calls[i].ret
    /\ \E i \in 1..Len(calls) : calls[i].ret /\ calls[i].t = calls[i].was
    /\ \E i \in 1..Len(calls) : calls[i].ret /\ calls[i].t > calls[i].was

\* C15 as stated: an admission raises nextTraceStart by exactly the window
\* over the value it had before the admission.
C15_AdvanceByWindowOverPrevious ==
    smpRate > 0
        => \A i \in 1..Len(calls) :
               calls[i].ret => calls[i].next = calls[i].was + Window

\* C15 amended: an admission sets nextTraceStart to the call time plus the
\* window, which is at least one window above the value it had before (and
\* exactly one window above only when the call came at that value); no call
\* lowers nextTraceStart.
C15_AdvanceFromCallTime ==
    smpRate > 0
        => \A i \in 1..Len(calls) :
               /\ calls[i].next >= calls[i].was
               /\ calls[i].ret
                      => /\ calls[i].next = calls[i].t + Window
                         /\ calls[i].next >= calls[i].was + Window
                         /\ (calls[i].next = calls[i].was + Window)
                                = (calls[i].t = calls[i].was)

\* an admission that raises nextTraceStart by more than one window
C15_Witness ==
    /\ smpRate > 0
    /\ \E i \in 1..Len(calls) :
          calls[i].ret /\ calls[i].next > calls[i].was + Window

\* C19: whatever the order of the timestamps, admitted timestamps grow by at
\* least W from one admission to the next: a call earlier than the latest
\* admitted timestamp plus W is rejected.
C19_AdmittedTimesIncrease ==
    smpRate > 0
        => \A j \in 1..Len(calls) :
               AdmittedBefore(j) # {}
                   => LET last == calls[LastAdmittedBefore(j)].t
                      IN  /\ calls[j].ret => calls[j].t >= last + Window
                          /\ calls[j].t < last + Window => ~calls[j].ret

\* timestamps out of order: a call earlier than the latest admitted one is
\* rejected between two admissions
C19_Witness ==
    /\ smpRate > 0 /\ ~NonDecreasing
    /\ \E i \in 1..(Len(calls) - 2) :
          /\ calls[i].ret
          /\ calls[i + 1].t < calls[i].t /\ ~calls[i + 1].ret
          /\ calls[i + 2].ret

----------------------------------------------------------------------------
\* C16: the limiter of a key behaves, on the first call for the key, as a
\* limiter whose nextTraceStart was the registry's epoch, whatever the
\* timestamp of that call, and on every later call as the stored limiter
\* (the value its last call left): the call returns true exactly when the
\* timestamp is not before that value, and leaves that value or timestamp +
\* window.  The epoch and the window never change.
C16_SeededAtEpochAndReused ==
    (RateStageCall /\ HasKey(lastReq) /\ ~lastThrew)
        => LET k == lastReq.options.name
               t == lastReq.timestamp
               was == KeyNext(Registry(before), k)
               lim == Registry(policy).samplers[k]
           IN  /\ k \in DOMAIN Registry(policy).samplers
               /\ lim.traceWindow = Registry(before).unnamedSampler.traceWindow
               /\ Registry(policy).samplerStart = Registry(before).samplerStart
               /\ lastRet = ~(t < was)
               /\ lim.nextTraceStart = IF t < was THEN was ELSE Add(t, lim.traceWindow)

\* a later call for a key is rejected by the stored limiter although its
\* timestamp is later than the epoch
C16_Witness ==
    /\ RateStageCall /\ HasKey(lastReq) /\ ~lastThrew
    /\ lastReq.options.name \in DOMAIN Registry(before).samplers
    /\ lastReq.timestamp > Registry(before).samplerStart
    /\ lastRet = FALSE
    /\ config.samplingRate > 0

\* C18: a request that passes the filter with a non-zero trace-options flag
\* is traced without reaching the rate stage: the policy object, with every
\* limiter of it, is left as it was.
C18_FlaggedSkipsRateStage ==
    (called /\ FilterPasses(lastReq) /\ Flagged(lastReq))
        => (policy = before /\ lastRet /\ ~lastThrew)

\* a flagged request for key A at a time A's limiter would admit, A having
\* no limiter before or after, while B has one
C18_Witness ==
    /\ called /\ FilterPasses(lastReq) /\ Flagged(lastReq) /\ lastRet
    /\ lastReq.options.hasName /\ lastReq.options.name = "A"
    /\ "A" \notin DOMAIN Registry(policy).samplers
    /\ "B" \in DOMAIN Registry(policy).samplers
    /\ lastReq.timestamp >= Registry(policy).samplerStart

----------------------------------------------------------------------------
\* a caller is between the comparison and the return of its call
InsideCall(c) == tasks[c].pc \in {"compare", "advance"}

\* C17: for callers of shouldTrace on the limiter of one key, no step of
\* another caller falls between a call's comparison with nextTraceStart and
\* its advance of nextTraceStart (at most one caller is inside the method),
\* and of two calls whose timestamps are less than one window apart at most
\* one returns true.
C17_CompareAndAdvanceAtomic ==
    smpRate > 0
        => /\ \A c \in Callers, d \in Callers :
                  (InsideCall(c) /\ InsideCall(d)) => c = d
           /\ \A c \in Callers : InsideCall(c) => running = c
           /\ \A c \in Callers, d \in Callers :
                  (/\ c # d
                   /\ tasks[c].pc = "done" /\ tasks[d].pc = "done"
                   /\ tasks[c].ret /\ tasks[d].ret)
                      => \/ tasks[c].t - tasks[d].t >= Window
                         \/ tasks[d].t - tasks[c].t >= Window

\* two callers came with the same timestamp; one was admitted and the other
\* rejected
C17_Witness ==
    /\ smpRate > 0
    /\ \E c \in Callers, d \in Callers :
          /\ c # d
          /\ tasks[c].pc = "done" /\ tasks[d].pc = "done"
          /\ tasks[c].t = tasks[d].t
          /\ tasks[c].ret /\ ~tasks[d].ret

====
